---- MODULE Spec2Model ----
(***************************************************************************)
(* The fabric.js drawing canvas of src/components/DrawingCanvas.tsx as a   *)
(* state machine: the component's refs, the fabric canvas it owns, the     *)
(* props it is rendered with, and the asynchronous loads in flight.        *)
(***************************************************************************)
EXTENDS Integers, Sequences, FiniteSets, TLC

VARIABLES
    fabricCanvasRef,   \* "null" or "canvas": fabricCanvasRef.current
    lifecycle,         \* "constructed", "mounted" or "unmounted": the effects that ran
    canvas,            \* the fabric.Canvas: objects, background, size, drawing mode
    historyRef,        \* historyRef.current: sequence of canvas.toJSON() snapshots
    isDrawingRef,      \* isDrawingRef.current
    startPointRef,     \* startPointRef.current: <<point>> or None
    currentShapeRef,   \* currentShapeRef.current: <<shape instance>> or None
    props,             \* tool, brushSize, aspectRatio, backgroundColor, backgroundImage
    container,         \* <<clientWidth, clientHeight>> of the container div
    imgLoads,          \* fabric.Image.fromURL loads whose callback has not run yet
    jsonLoads,         \* canvas.loadFromJSON loads whose callback has not run yet
    pointerHeld,       \* a pointer button is down on the canvas
    nextId,            \* next object instance to be constructed
    uncaughtError,     \* an event handler or an imperative method has thrown
    exported,          \* <<image>> returned by the last exportImage(), or None
    lastOp,            \* history variable: the last operation that ran
    scenario,          \* history variable: "gestures" while only whole gestures ran,
                       \* "undone"/"undoneMore" once undo was called after them
    done               \* history variable: the objects on the canvas when undo was called

vars == <<fabricCanvasRef, lifecycle, canvas, historyRef, isDrawingRef, startPointRef,
          currentShapeRef, props, container, imgLoads, jsonLoads, pointerHeld,
          nextId, uncaughtError, exported, lastOp, scenario, done>>

\* the variables the program itself holds (everything but the history variables)
progVars == <<fabricCanvasRef, canvas, historyRef, isDrawingRef, startPointRef,
              currentShapeRef, props, container, imgLoads, jsonLoads>>

-----------------------------------------------------------------------------
\* Program constants and the bounds of the model

MAX_UNDO_STEPS == 20

\* the range of the brush size: the limits of the '[' and ']' shortcuts and of
\* the slider
MinBrushSize == 1
MaxBrushSize == 100

MaxObjects == 2
MaxHistory == 3
MaxObjectsHist == 22
MaxObjectsFull == 1
MaxHistoryFull == 2
ClearWindow == 3
MaxObjectsBg == 1
MaxObjectsShape == 2
MaxObjectsView == 1
MaxObjectsResize == 1
MaxSide == 16
MaxHistoryBg == 2

Null == "null"
\* a ref holding null is the empty sequence, a ref holding v is <<v>>
None == <<>>
Tools == {"brush", "rectangle", "circle", "arrow"}
ToolsFull == {"brush", "rectangle", "arrow"}
Colors == {"#111827", "#ffffff"}
Images == {"imgA"}
ImagesBg == {"imgA", "imgB"}
\* an image URL whose data cannot be decoded, and the element-less
\* fabric.Image built from it
BadImages == {"imgBad"}
Broken == "broken"
AspectRatios == {<<1, 1>>, <<16, 9>>}
Containers == {<<48, 36>>, <<36, 48>>}
ContainersResize == Containers \cup {<<0, 36>>, <<48, 0>>}
Points == {<<0, 0>>}
ShapeTools == {"rectangle", "circle", "arrow"}
ShapePoints == {<<2, 2>>, <<5, 4>>, <<0, 3>>}
BrushSizes == {1, 10}
SizeRatios == {<<1, 1>>, <<3, 4>>, <<4, 3>>, <<9, 16>>, <<16, 9>>}
SizeBoxes == (1..MaxSide) \X (1..MaxSide)

-----------------------------------------------------------------------------
\* Pure helpers

Abs(n) == IF n < 0 THEN -n ELSE n

Front(s) == SubSeq(s, 1, Len(s) - 1)

Last(s) == s[Len(s)]

\* the last n elements of s (all of s when it is shorter)
Suffix(s, n) == IF Len(s) <= n THEN s ELSE SubSeq(s, Len(s) - n + 1, Len(s))

\* the sizing logic without its height check: the width is always clamped
ComputeSizeMut(aw, ah, cw, ch) ==
    [width |-> <<cw, 1>>, height |-> <<cw * ah, aw>>]

\* Sizing logic of updateCanvasView; a size is an exact fraction <<num, den>>.
\* newH = containerW / (aspectW / aspectH) = containerW * aspectH / aspectW
ComputeSize(aw, ah, cw, ch) ==
    IF cw * ah > ch * aw
      THEN [width |-> <<ch * aw, ah>>, height |-> <<ch, 1>>]
      ELSE [width |-> <<cw, 1>>, height |-> <<cw * ah, aw>>]

\* fabric type of the object a tool creates
TypeOf(t) ==
    CASE t = "rectangle" -> "rect"
      [] t = "circle"    -> "ellipse"
      [] t = "arrow"     -> "group"
      [] OTHER           -> "path"

\* an object instance; ref names the JS instance, 0 for a deserialized one.
\* Coordinates are exact fractions <<num, den>>; the head angle is
\* atan2(dy, dx) in degrees plus a constant. b is the brushSize the handler
\* closed over: the stroke width, and a third of the side of an arrow's head.
NewObject(t, id, p, b) ==
    [type |-> TypeOf(t), id |-> id, ref |-> id,
     strokeWidth |-> b, head |-> IF t = "arrow" THEN b * 3 ELSE 0,
     left |-> <<p[1], 1>>, top |-> <<p[2], 1>>, width |-> 0, height |-> 0,
     rx |-> <<0, 1>>, ry |-> <<0, 1>>,
     originX |-> IF t = "arrow" THEN "center" ELSE "left",
     originY |-> IF t = "arrow" THEN "center" ELSE "top",
     x2 |-> p[1], y2 |-> p[2], angle |-> [atan2 |-> <<0, 1>>, plus |-> -90]]

\* object.toObject(): the serialized form carries no instance identity
ToObject(o) == [f \in (DOMAIN o) \ {"ref"} |-> o[f]]

FromObject(j) == [f \in (DOMAIN j) \cup {"ref"} |-> IF f = "ref" THEN 0 ELSE j[f]]

\* canvas.toJSON()
ToJSON(cv) ==
    [objects |-> [i \in 1..Len(cv.objects) |-> ToObject(cv.objects[i])],
     background |-> cv.backgroundColor,
     backgroundImage |-> cv.backgroundImage]

\* the ids of the objects on the canvas, bottom to top
ObjectIds(cv) == [i \in 1..Len(cv.objects) |-> cv.objects[i].id]

-----------------------------------------------------------------------------
\* The component's callbacks, as functions of the state they read

\* saveState with >= for >: the oldest entry is dropped one push too early
SaveStateEarly(h, json) ==
    LET pushed == Append(h, json)
    IN  IF Len(pushed) >= MAX_UNDO_STEPS THEN Tail(pushed) ELSE pushed

\* saveState with pop() for shift(): over capacity the newest entry is dropped
SaveStateMut(h, json) ==
    LET pushed == Append(h, json)
    IN  IF Len(pushed) > MAX_UNDO_STEPS THEN Front(pushed) ELSE pushed

\* saveState: push canvas.toJSON(), drop the oldest entry over MAX_UNDO_STEPS
SaveState(h, json) ==
    LET pushed == Append(h, json)
    IN  IF Len(pushed) > MAX_UNDO_STEPS THEN Tail(pushed) ELSE pushed

\* the values an updateCanvasView closure captures
View(pr) ==
    [aspectRatio |-> pr.aspectRatio,
     backgroundColor |-> pr.backgroundColor,
     backgroundImage |-> pr.backgroundImage]

\* updateCanvasView, its synchronous part: size, background colour, and
\* setBackgroundImage(null) when no image is configured
UpdateCanvasView(cv, view, cont) ==
    LET size == ComputeSize(view.aspectRatio[1], view.aspectRatio[2], cont[1], cont[2])
    IN  [cv EXCEPT !.width = size.width,
                   !.height = size.height,
                   !.backgroundColor = view.backgroundColor,
                   !.backgroundImage = IF view.backgroundImage # Null THEN @ ELSE Null]

\* updateCanvasView, its asynchronous part: fabric.Image.fromURL is started
StartImageLoad(loads, view) ==
    IF view.backgroundImage # Null THEN loads \cup {view.backgroundImage} ELSE loads

\* canvas.clear(): objects and both backgrounds are dropped
CanvasClear(cv) ==
    [cv EXCEPT !.objects = <<>>, !.backgroundColor = "", !.backgroundImage = Null]

\* the canvas once loadFromJSON has rebuilt it from a snapshot
LoadFromJSON(cv, json) ==
    [CanvasClear(cv) EXCEPT
        !.objects = [i \in 1..Len(json.objects) |-> FromObject(json.objects[i])],
        !.backgroundColor = json.background,
        !.backgroundImage = json.backgroundImage]

\* loadFromJSON calls back synchronously unless the snapshot carries an image
\* that has to be decoded first
LoadIsAsync(json) == json.backgroundImage # Null

\* the shape-drawing effect registers its handlers for every tool but brush
HandlersRegistered(t) == t # "brush"

\* the imperative methods with their null check left out
HasCanvasMut(ref) == TRUE

\* the null check of the imperative methods: if (canvas), ?.
HasCanvas(ref) == ref # Null

\* the guard of undo with >= for >
CanUndoMut(h) == Len(h) >= 1

\* the guard of undo
CanUndo(h) == Len(h) > 1

\* clear that starts a new history instead of pushing onto the old one
ClearSaveMut(h, json) == <<json>>

\* the saveState() call that ends clear
ClearSave(h, json) == SaveState(h, json)

\* handleMouseMove without the origin flip of the rectangle
MoveShapeNoFlip(o, t, start, p) ==
    LET dx == p[1] - start[1]
        dy == p[2] - start[2]
    IN  CASE t = "rectangle" ->
               [o EXCEPT !.width = Abs(dx), !.height = Abs(dy)]
          [] t = "circle" ->
               [o EXCEPT !.rx = <<Abs(dx), 2>>, !.ry = <<Abs(dy), 2>>,
                         !.originX = "center", !.originY = "center",
                         !.left = <<2 * start[1] + dx, 2>>,
                         !.top = <<2 * start[2] + dy, 2>>]
          [] t = "arrow" ->
               [o EXCEPT !.x2 = p[1], !.y2 = p[2],
                         !.left = <<p[1], 1>>, !.top = <<p[2], 1>>,
                         !.angle = [atan2 |-> <<dy, dx>>, plus |-> 90]]
          [] OTHER -> o

\* handleMouseMove with the full extent of the drag as the ellipse's radii
MoveShapeRadius(o, t, start, p) ==
    LET dx == p[1] - start[1]
        dy == p[2] - start[2]
    IN  CASE t = "rectangle" ->
               [o EXCEPT !.width = Abs(dx), !.height = Abs(dy),
                         !.originX = IF p[1] < start[1] THEN "right" ELSE "left",
                         !.originY = IF p[2] < start[2] THEN "bottom" ELSE "top"]
          [] t = "circle" ->
               [o EXCEPT !.rx = <<Abs(dx), 1>>, !.ry = <<Abs(dy), 1>>,
                         !.originX = "center", !.originY = "center",
                         !.left = <<2 * start[1] + dx, 2>>,
                         !.top = <<2 * start[2] + dy, 2>>]
          [] t = "arrow" ->
               [o EXCEPT !.x2 = p[1], !.y2 = p[2],
                         !.left = <<p[1], 1>>, !.top = <<p[2], 1>>,
                         !.angle = [atan2 |-> <<dy, dx>>, plus |-> 90]]
          [] OTHER -> o

\* handleMouseMove's update of the current shape, by the handler's tool
MoveShape(o, t, start, p) ==
    LET dx == p[1] - start[1]
        dy == p[2] - start[2]
    IN  CASE t = "rectangle" ->
               [o EXCEPT !.width = Abs(dx), !.height = Abs(dy),
                         !.originX = IF p[1] < start[1] THEN "right" ELSE "left",
                         !.originY = IF p[2] < start[2] THEN "bottom" ELSE "top"]
          [] t = "circle" ->
               [o EXCEPT !.rx = <<Abs(dx), 2>>, !.ry = <<Abs(dy), 2>>,
                         !.originX = "center", !.originY = "center",
                         !.left = <<2 * start[1] + dx, 2>>,
                         !.top = <<2 * start[2] + dy, 2>>]
          [] t = "arrow" ->
               [o EXCEPT !.x2 = p[1], !.y2 = p[2],
                         !.left = <<p[1], 1>>, !.top = <<p[2], 1>>,
                         !.angle = [atan2 |-> <<dy, dx>>, plus |-> 90]]
          [] OTHER -> o

\* the history variables after an operation
Track(op, sc, d) ==
    /\ lastOp' = op
    /\ scenario' = sc
    /\ done' = IF sc = "other" THEN <<>> ELSE d

-----------------------------------------------------------------------------
\* Initial state: the component is constructed, its mount effect has not run

EmptyCanvas ==
    [objects |-> <<>>, backgroundColor |-> "", backgroundImage |-> Null,
     width |-> <<0, 1>>, height |-> <<0, 1>>,
     isDrawingMode |-> FALSE, isCurrentlyDrawing |-> FALSE]

InitWith(t, c) ==
    /\ fabricCanvasRef = Null
    /\ lifecycle = "constructed"
    /\ canvas = EmptyCanvas
    /\ historyRef = <<>>
    /\ isDrawingRef = FALSE
    /\ startPointRef = None
    /\ currentShapeRef = None
    /\ props = [tool |-> t, brushSize |-> 10, aspectRatio |-> <<1, 1>>,
                backgroundColor |-> "#111827", backgroundImage |-> Null]
    /\ container = c
    /\ imgLoads = {}
    /\ jsonLoads = {}
    /\ pointerHeld = FALSE
    /\ nextId = 1
    /\ uncaughtError = FALSE
    /\ exported = None
    /\ lastOp = "init"
    /\ scenario = "other"
    /\ done = <<>>

Init == InitWith("brush", <<48, 36>>)

-----------------------------------------------------------------------------
\* Operations

\* the mount effect, then the other effects of the first commit
Mount ==
    /\ lifecycle = "constructed"
    /\ lifecycle' = "mounted"
    /\ LET cv == UpdateCanvasView(EmptyCanvas, View(props), container)
       IN  /\ fabricCanvasRef' = "canvas"
           /\ historyRef' = SaveState(<<>>, ToJSON(cv))
           /\ canvas' = [cv EXCEPT !.isDrawingMode = (props.tool = "brush")]
           /\ imgLoads' = StartImageLoad(imgLoads, View(props))
    /\ Track("mount", "gestures", <<>>)
    /\ exported' = None
    /\ UNCHANGED <<isDrawingRef, startPointRef, currentShapeRef, props, container,
                   jsonLoads, pointerHeld, nextId, uncaughtError>>

\* a prop change re-creates updateCanvasView and the prop-change effect calls it
PropChange(pr) ==
    /\ fabricCanvasRef # Null
    /\ pr # props
    /\ props' = pr
    /\ canvas' = [(IF View(pr) # View(props)
                      THEN UpdateCanvasView(canvas, View(pr), container)
                      ELSE canvas)
                    EXCEPT !.isDrawingMode = (pr.tool = "brush")]
    /\ imgLoads' = IF View(pr) # View(props)
                     THEN StartImageLoad(imgLoads, View(pr)) ELSE imgLoads
    /\ exported' = None
    /\ UNCHANGED <<fabricCanvasRef, lifecycle, historyRef, isDrawingRef, startPointRef,
                   currentShapeRef, container, jsonLoads, pointerHeld, nextId,
                   uncaughtError>>

SetTool(t) ==
    /\ PropChange([props EXCEPT !.tool = t])
    /\ Track("setTool", IF pointerHeld THEN "other" ELSE scenario, done)

SetAspectRatio(a) ==
    /\ PropChange([props EXCEPT !.aspectRatio = a])
    /\ Track("setAspectRatio", "other", done)

SetBackgroundColor(c) ==
    /\ PropChange([props EXCEPT !.backgroundColor = c])
    /\ Track("setBackgroundColor", "other", done)

SetBackgroundImage(i) ==
    /\ PropChange([props EXCEPT !.backgroundImage = i])
    /\ Track("setBackgroundImage",
             IF scenario = "gestures" /\ ~pointerHeld THEN scenario ELSE "other", done)

\* brushSize re-creates the tool effect and the shape handlers
SetBrushSize(b) ==
    /\ PropChange([props EXCEPT !.brushSize = b])
    /\ Track("setBrushSize", IF pointerHeld THEN "other" ELSE scenario, done)

\* the '[' shortcut with its Math.max(1, ...) left out
DecBrushSizeMut(s) == s - 1

\* the '[' shortcut: Math.max(1, brushSize - 1)
DecBrushSize(s) == IF s - 1 > MinBrushSize THEN s - 1 ELSE MinBrushSize

\* the ']' shortcut: Math.min(100, brushSize + 1)
IncBrushSize(s) == IF s + 1 < MaxBrushSize THEN s + 1 ELSE MaxBrushSize

\* the application sets its brushSize state to b; when the value differs the
\* canvas component is rendered again with the new prop
BrushSizeChange(b) ==
    IF b = props.brushSize
      THEN /\ fabricCanvasRef # Null
           /\ exported' = None
           /\ UNCHANGED <<fabricCanvasRef, lifecycle, canvas, historyRef, isDrawingRef,
                          startPointRef, currentShapeRef, props, container, imgLoads,
                          jsonLoads, pointerHeld, nextId, uncaughtError>>
      ELSE PropChange([props EXCEPT !.brushSize = b])

\* keydown '[' in draw mode
KeyBracketLeft ==
    /\ BrushSizeChange(DecBrushSize(props.brushSize))
    /\ Track("keyBracketLeft", IF pointerHeld THEN "other" ELSE scenario, done)

\* keydown ']' in draw mode
KeyBracketRight ==
    /\ BrushSizeChange(IncBrushSize(props.brushSize))
    /\ Track("keyBracketRight", IF pointerHeld THEN "other" ELSE scenario, done)

\* the brush size slider, an input of type range with min 1 and max 100:
\* setBrushSize(Number(e.target.value))
Slider(v) ==
    /\ v \in MinBrushSize..MaxBrushSize
    /\ v # props.brushSize
    /\ BrushSizeChange(v)
    /\ Track("slider", IF pointerHeld THEN "other" ELSE scenario, done)

\* the cleanup of the mount effect: canvas.dispose(), fabricCanvasRef.current = null
Unmount ==
    /\ lifecycle = "mounted"
    /\ lifecycle' = "unmounted"
    /\ fabricCanvasRef' = Null
    /\ canvas' = EmptyCanvas
    /\ Track("unmount", "other", done)
    /\ exported' = None
    /\ UNCHANGED <<historyRef, isDrawingRef, startPointRef, currentShapeRef, props,
                   container, imgLoads, jsonLoads, pointerHeld, nextId, uncaughtError>>

\* window resize: the listener is the current updateCanvasView
Resize(c) ==
    /\ fabricCanvasRef # Null
    /\ c # container
    /\ container' = c
    /\ canvas' = UpdateCanvasView(canvas, View(props), c)
    /\ imgLoads' = StartImageLoad(imgLoads, View(props))
    /\ Track("resize", "other", done)
    /\ exported' = None
    /\ UNCHANGED <<fabricCanvasRef, lifecycle, historyRef, isDrawingRef, startPointRef,
                   currentShapeRef, props, jsonLoads, pointerHeld, nextId,
                   uncaughtError>>

\* the callback of fabric.Image.fromURL: setBackgroundImage(img)
ImageLoaded(u) ==
    /\ fabricCanvasRef # Null
    /\ u \in imgLoads
    /\ imgLoads' = imgLoads \ {u}
    /\ canvas' = [canvas EXCEPT !.backgroundImage = u]
    /\ Track("imageLoaded", scenario, done)
    /\ exported' = None
    /\ UNCHANGED <<fabricCanvasRef, lifecycle, historyRef, isDrawingRef, startPointRef,
                   currentShapeRef, props, container, jsonLoads, pointerHeld,
                   nextId, uncaughtError>>

\* the load of fabric.Image.fromURL fails to decode. updateCanvasView gives
\* fromURL no error handling, so what happens is up to fabric: it either calls
\* back with an image that has no element (and the callback sets it as the
\* background, where it draws nothing), or throws while building that image
\* and never calls back.
ImageFailed(u) ==
    /\ fabricCanvasRef # Null
    /\ u \in imgLoads
    /\ imgLoads' = imgLoads \ {u}
    /\ \/ /\ canvas' = [canvas EXCEPT !.backgroundImage = Broken]
          /\ UNCHANGED uncaughtError
       \/ /\ uncaughtError' = TRUE
          /\ UNCHANGED canvas
    /\ Track("imageFailed", scenario, done)
    /\ exported' = None
    /\ UNCHANGED <<fabricCanvasRef, lifecycle, historyRef, isDrawingRef, startPointRef,
                   currentShapeRef, props, container, jsonLoads, pointerHeld,
                   nextId>>

\* shape.set drawn as one more object, the earlier geometry left on the canvas
WithShapeMut(cv, ref, o) == [cv EXCEPT !.objects = Append(@, o)]

\* shape.set(...): the instance `ref` on the canvas takes the new geometry o
WithShape(cv, ref, o) ==
    [cv EXCEPT !.objects = [i \in 1..Len(@) |-> IF @[i].ref = ref THEN o ELSE @[i]]]

\* the live instance currentShapeRef points to: on the canvas, or detached
CurrentShape ==
    IF \E i \in 1..Len(canvas.objects) : canvas.objects[i].ref = currentShapeRef[1].ref
      THEN canvas.objects[CHOOSE i \in 1..Len(canvas.objects) :
                              canvas.objects[i].ref = currentShapeRef[1].ref]
      ELSE currentShapeRef[1]

\* mouse:down on the canvas. In drawing mode fabric starts a free-drawing
\* path; otherwise handleMouseDown (registered unless the tool is brush) runs.
PointerDown(p) ==
    /\ fabricCanvasRef # Null
    /\ pointerHeld' = TRUE
    /\ IF canvas.isDrawingMode
         THEN /\ canvas' = [canvas EXCEPT !.isCurrentlyDrawing = TRUE]
              /\ UNCHANGED <<isDrawingRef, startPointRef, currentShapeRef, nextId>>
         ELSE IF HandlersRegistered(props.tool)
           THEN LET shape == NewObject(props.tool, nextId, p, props.brushSize)
                IN  /\ isDrawingRef' = TRUE
                    /\ startPointRef' = <<p>>
                    /\ currentShapeRef' = <<shape>>
                    /\ canvas' = [canvas EXCEPT !.objects = Append(@, shape)]
                    /\ nextId' = nextId + 1
           ELSE UNCHANGED <<canvas, isDrawingRef, startPointRef, currentShapeRef, nextId>>
    /\ Track("pointerDown",
             IF pointerHeld \/ scenario # "gestures" THEN "other" ELSE scenario, done)
    /\ exported' = None
    /\ UNCHANGED <<fabricCanvasRef, lifecycle, historyRef, props, container, imgLoads,
                   jsonLoads, uncaughtError>>

\* handleMouseMove calling saveState() while a shape is being drawn
PointerMoveMut(p) ==
    /\ fabricCanvasRef # Null
    /\ IF ~canvas.isDrawingMode /\ HandlersRegistered(props.tool)
          /\ isDrawingRef /\ currentShapeRef # None /\ startPointRef # None
         THEN IF props.tool = "arrow" /\ currentShapeRef[1].type # "group"
                THEN /\ uncaughtError' = TRUE
                     /\ UNCHANGED <<canvas, currentShapeRef>>
                ELSE LET moved == MoveShape(CurrentShape, props.tool, startPointRef[1], p)
                     IN  /\ canvas' = WithShape(canvas, moved.ref, moved)
                         /\ currentShapeRef' = <<moved>>
                         /\ UNCHANGED uncaughtError
         ELSE UNCHANGED <<canvas, currentShapeRef, uncaughtError>>
    /\ historyRef' = IF isDrawingRef /\ HandlersRegistered(props.tool)
                       THEN SaveState(historyRef, ToJSON(canvas))
                       ELSE historyRef
    /\ Track("pointerMove", IF pointerHeld THEN scenario ELSE "other", done)
    /\ exported' = None
    /\ UNCHANGED <<fabricCanvasRef, lifecycle, isDrawingRef, startPointRef, props,
                   container, imgLoads, jsonLoads, pointerHeld, nextId>>

\* mouse:move on the canvas. handleMouseMove returns early unless a shape
\* gesture is in progress; the arrow branch calls shape.item(), which only a
\* group has.
PointerMove(p) ==
    /\ fabricCanvasRef # Null
    /\ IF ~canvas.isDrawingMode /\ HandlersRegistered(props.tool)
          /\ isDrawingRef /\ currentShapeRef # None /\ startPointRef # None
         THEN IF props.tool = "arrow" /\ currentShapeRef[1].type # "group"
                THEN /\ uncaughtError' = TRUE
                     /\ UNCHANGED <<canvas, currentShapeRef>>
                ELSE LET moved == MoveShape(CurrentShape, props.tool, startPointRef[1], p)
                     IN  /\ canvas' = WithShape(canvas, moved.ref, moved)
                         /\ currentShapeRef' = <<moved>>
                         /\ UNCHANGED uncaughtError
         ELSE UNCHANGED <<canvas, currentShapeRef, uncaughtError>>
    /\ Track("pointerMove", IF pointerHeld THEN scenario ELSE "other", done)
    /\ exported' = None
    /\ UNCHANGED <<fabricCanvasRef, lifecycle, historyRef, isDrawingRef, startPointRef, props,
                   container, imgLoads, jsonLoads, pointerHeld, nextId>>

\* mouse:up on the canvas. In drawing mode fabric finalizes the path, adds it
\* and fires path:created; saveState listens to path:created and handleMouseUp
\* to mouse:up only while the shape handlers are registered.
PointerUp ==
    /\ fabricCanvasRef # Null
    /\ pointerHeld' = FALSE
    /\ LET stroke == canvas.isDrawingMode /\ canvas.isCurrentlyDrawing
           path == NewObject("brush", nextId, <<0, 0>>, props.brushSize)
           cv == IF stroke
                   THEN [canvas EXCEPT !.objects = Append(@, path),
                                       !.isCurrentlyDrawing = FALSE]
                   ELSE canvas
           saves == HandlersRegistered(props.tool)
           made == stroke \/ (saves /\ currentShapeRef # None)
       IN  /\ canvas' = cv
           /\ nextId' = IF stroke THEN nextId + 1 ELSE nextId
           /\ IF saves
                THEN /\ isDrawingRef' = FALSE
                     /\ currentShapeRef' = None
                     /\ startPointRef' = None
                     /\ historyRef' = SaveState(historyRef, ToJSON(cv))
                ELSE UNCHANGED <<isDrawingRef, currentShapeRef, startPointRef,
                                 historyRef>>
           /\ Track("pointerUp",
                    IF pointerHeld /\ scenario = "gestures" /\ made
                      THEN scenario ELSE "other",
                    done)
    /\ exported' = None
    /\ UNCHANGED <<fabricCanvasRef, lifecycle, props, container, imgLoads, jsonLoads,
                   uncaughtError>>

\* the pointer leaves the canvas. No handler of the shape-drawing effect is
\* registered for it (mouse:down, mouse:move, mouse:up and path:created only);
\* the one mouseleave listener, on the container while the tool is brush,
\* hides the brush preview overlay, which is no part of the canvas.
PointerLeave ==
    /\ fabricCanvasRef # Null
    /\ Track("pointerLeave", scenario, done)
    /\ exported' = None
    /\ UNCHANGED <<fabricCanvasRef, lifecycle, canvas, historyRef, isDrawingRef,
                   startPointRef, currentShapeRef, props, container, imgLoads,
                   jsonLoads, pointerHeld, nextId, uncaughtError>>

\* canvas.toDataURL(): what the canvas shows, at its current size
Render(cv) ==
    [objects |-> ToJSON(cv).objects,
     backgroundColor |-> cv.backgroundColor,
     backgroundImage |-> cv.backgroundImage,
     width |-> cv.width, height |-> cv.height]

\* exportImage that also records the exported state in the history
ExportImageMut ==
    /\ exported' = IF fabricCanvasRef # Null THEN <<Render(canvas)>> ELSE None
    /\ historyRef' = IF fabricCanvasRef # Null
                        THEN SaveState(historyRef, ToJSON(canvas)) ELSE historyRef
    /\ Track("exportImage", scenario, done)
    /\ UNCHANGED <<fabricCanvasRef, lifecycle, canvas, isDrawingRef, startPointRef,
                   currentShapeRef, props, container, imgLoads, jsonLoads,
                   pointerHeld, nextId, uncaughtError>>

\* exportImage: fabricCanvasRef.current?.toDataURL(...) || ''. The empty
\* string is None; a method call on null throws.
ExportImage ==
    /\ IF HasCanvas(fabricCanvasRef)
         THEN IF fabricCanvasRef = Null
                THEN exported' = None /\ uncaughtError' = TRUE
                ELSE exported' = <<Render(canvas)>> /\ UNCHANGED uncaughtError
         ELSE exported' = None /\ UNCHANGED uncaughtError
    /\ Track("exportImage", scenario, done)
    /\ UNCHANGED <<fabricCanvasRef, lifecycle, canvas, historyRef, isDrawingRef,
                   startPointRef, currentShapeRef, props, container, imgLoads,
                   jsonLoads, pointerHeld, nextId>>

\* clear: if (canvas) { canvas.clear(); updateCanvasView(); saveState() }
Clear ==
    /\ IF ~HasCanvas(fabricCanvasRef)
         THEN /\ UNCHANGED <<canvas, historyRef, imgLoads, uncaughtError>>
              /\ Track("clearNoop", "other", done)
         ELSE IF fabricCanvasRef = Null
           THEN /\ uncaughtError' = TRUE
                /\ UNCHANGED <<canvas, historyRef, imgLoads>>
                /\ Track("clearNoop", "other", done)
           ELSE LET cv == UpdateCanvasView(CanvasClear(canvas), View(props), container)
                IN  /\ canvas' = cv
                    /\ historyRef' = ClearSave(historyRef, ToJSON(cv))
                    /\ imgLoads' = StartImageLoad(imgLoads, View(props))
                    /\ Track("clear", "other", done)
                    /\ UNCHANGED uncaughtError
    /\ exported' = None
    /\ UNCHANGED <<fabricCanvasRef, lifecycle, isDrawingRef, startPointRef,
                   currentShapeRef, props, container, jsonLoads, pointerHeld, nextId>>

\* the completion of loadFromJSON and its callback, the updateCanvasView
\* captured when undo was called
Loaded(cv, load, cont) == UpdateCanvasView(LoadFromJSON(cv, load.json), load.view, cont)

\* the scenario after undo: "undone" after the first undo that follows whole
\* gestures, "undoneMore" after further ones
AfterUndo ==
    IF pointerHeld THEN "other"
    ELSE IF scenario = "gestures" THEN "undone"
    ELSE IF scenario \in {"undone", "undoneMore"} THEN "undoneMore"
    ELSE "other"

\* undo: if (canvas && length > 1) pop the current state and load the one
\* below it. loadFromJSON returns at once, without calling back, when there is
\* nothing below.
Undo ==
    /\ IF ~HasCanvas(fabricCanvasRef)
         THEN /\ UNCHANGED <<historyRef, canvas, imgLoads, jsonLoads, uncaughtError>>
              /\ Track("undoNoop", AfterUndo, done)
         ELSE IF fabricCanvasRef = Null
           THEN /\ uncaughtError' = TRUE
                /\ UNCHANGED <<historyRef, canvas, imgLoads, jsonLoads>>
                /\ Track("undoNoop", AfterUndo, done)
         ELSE IF CanUndo(historyRef)
           THEN LET h == Front(historyRef)
                    load == [json |-> Last(h), view |-> View(props)]
                IN  /\ historyRef' = h
                    /\ IF h = <<>>
                         THEN UNCHANGED <<canvas, imgLoads, jsonLoads>>
                         ELSE IF LoadIsAsync(load.json)
                           THEN /\ jsonLoads' = jsonLoads \cup {load}
                                /\ UNCHANGED <<canvas, imgLoads>>
                           ELSE /\ canvas' = Loaded(canvas, load, container)
                                /\ imgLoads' = StartImageLoad(imgLoads, load.view)
                                /\ UNCHANGED jsonLoads
                    /\ Track("undo", AfterUndo, IF scenario = "gestures"
                                                  THEN ObjectIds(canvas) ELSE done)
                    /\ UNCHANGED uncaughtError
           ELSE /\ UNCHANGED <<historyRef, canvas, imgLoads, jsonLoads, uncaughtError>>
                /\ Track("undoNoop", AfterUndo, IF scenario = "gestures"
                                                      THEN ObjectIds(canvas) ELSE done)
    /\ exported' = None
    /\ UNCHANGED <<fabricCanvasRef, lifecycle, isDrawingRef, startPointRef,
                   currentShapeRef, props, container, pointerHeld, nextId>>

\* a pending loadFromJSON completes
JsonLoaded(load) ==
    /\ fabricCanvasRef # Null
    /\ load \in jsonLoads
    /\ jsonLoads' = jsonLoads \ {load}
    /\ canvas' = Loaded(canvas, load, container)
    /\ imgLoads' = StartImageLoad(imgLoads, load.view)
    /\ Track("jsonLoaded",
             IF scenario \in {"undone", "undoneMore"} THEN scenario ELSE "other", done)
    /\ exported' = None
    /\ UNCHANGED <<fabricCanvasRef, lifecycle, historyRef, isDrawingRef, startPointRef,
                   currentShapeRef, props, container, pointerHeld, nextId,
                   uncaughtError>>

-----------------------------------------------------------------------------
\* Specifications

\* Spec: the drawing session. Whole gestures with every tool (the tool is
\* changed between gestures), clear, undo and export, with no background
\* image configured.
Drawing ==
    /\ nextId <= MaxObjects
    /\ ~pointerHeld
    /\ \E p \in Points : PointerDown(p)

Pushing ==
    /\ Len(historyRef) < MaxHistory
    /\ \/ PointerUp
       \/ Clear

Next ==
    \/ Mount
    \/ Drawing
    \/ \E p \in Points : PointerMove(p)
    \/ Pushing
    \/ (~pointerHeld /\ \E t \in Tools : SetTool(t))
    \/ ExportImage
    \/ Undo

Spec == Init /\ [][Next]_vars

\* SpecAsync: the session with a background image. Whole gestures of one
\* shape tool; the image is configured and removed at any time, and the image
\* loads and the loadFromJSON loads complete in any order.
InitAsync == InitWith("rectangle", <<48, 36>>)

NextAsync ==
    \/ Mount
    \/ Drawing
    \/ (pointerHeld /\ \E p \in Points : PointerMove(p))
    \/ (Len(historyRef) < MaxHistory /\ ((pointerHeld /\ PointerUp) \/ Clear))
    \/ \E i \in Images \cup {Null} : SetBackgroundImage(i)
    \/ \E u \in Images : ImageLoaded(u)
    \/ ExportImage
    \/ Undo
    \/ \E l \in jsonLoads : JsonLoaded(l)

SpecAsync == InitAsync /\ [][NextAsync]_vars

\* SpecFull: pointer events, tool, aspect-ratio and background-colour changes,
\* resizes, clear, undo and export at any time, also in the middle of a
\* gesture, within smaller bounds and with no background image.
InitFull == \E c \in Containers : InitWith("brush", c)

NextFull ==
    \/ Mount
    \/ (nextId <= MaxObjectsFull /\ \E p \in Points : PointerDown(p))
    \/ \E p \in Points : PointerMove(p)
    \/ (Len(historyRef) < MaxHistoryFull /\ (PointerUp \/ Clear))
    \/ \E t \in ToolsFull : SetTool(t)
    \/ \E a \in AspectRatios : SetAspectRatio(a)
    \/ \E c \in Colors : SetBackgroundColor(c)
    \/ \E c \in Containers : Resize(c)
    \/ ExportImage
    \/ Undo

SpecFull == InitFull /\ [][NextFull]_vars

\* SpecHist: long runs of one shape tool, up to and past the capacity of the
\* history. clear is called on a non-empty canvas early in the run, undo when
\* the history is full.
InitHist == InitWith("rectangle", <<48, 36>>)

NextHist ==
    \/ Mount
    \/ (nextId <= MaxObjectsHist /\ ~pointerHeld /\ \E p \in Points : PointerDown(p))
    \/ (pointerHeld /\ PointerUp)
    \/ (nextId <= ClearWindow /\ ~pointerHeld /\ canvas.objects # <<>> /\ Clear)
    \/ (Len(historyRef) = MAX_UNDO_STEPS /\ ~pointerHeld /\ Undo)

SpecHist == InitHist /\ [][NextHist]_vars

\* SpecBg: the background. Colour and image are changed at any time, image
\* loads complete in any order, the container is resized, and one shape is
\* drawn.
InitBg == InitWith("rectangle", <<48, 36>>)

NextBg ==
    \/ Mount
    \/ (nextId <= MaxObjectsBg /\ ~pointerHeld /\ \E p \in Points : PointerDown(p))
    \/ (pointerHeld /\ Len(historyRef) < MaxHistoryBg /\ PointerUp)
    \/ \E i \in ImagesBg \cup {Null} : SetBackgroundImage(i)
    \/ \E c \in Colors : SetBackgroundColor(c)
    \/ \E c \in Containers : Resize(c)
    \/ \E u \in ImagesBg : ImageLoaded(u)

SpecBg == InitBg /\ [][NextBg]_vars

\* SpecShape: shape gestures in every direction. The brush size is chosen
\* before the first gesture and the tool between gestures; a gesture is a
\* pointerDown, any number of pointerMoves and a pointerUp.
InitShape == InitWith("rectangle", <<48, 36>>)

NextShape ==
    \/ Mount
    \/ (nextId <= MaxObjectsShape /\ ~pointerHeld
          /\ \E p \in ShapePoints : PointerDown(p))
    \/ (pointerHeld /\ \E p \in ShapePoints : PointerMove(p))
    \/ (pointerHeld /\ PointerUp)
    \/ (~pointerHeld /\ \E t \in ShapeTools : SetTool(t))
    \/ (nextId = 1 /\ ~pointerHeld /\ \E b \in BrushSizes : SetBrushSize(b))

SpecShape == InitShape /\ [][NextShape]_vars

\* SpecSize: the sizing logic. Every aspect ratio of the application with
\* every container box of sides 1..MaxSide, through mount, aspect-ratio
\* changes and resizes.
InitSize == \E c \in SizeBoxes : InitWith("brush", c)

NextSize ==
    \/ Mount
    \/ \E a \in SizeRatios : SetAspectRatio(a)
    \/ \E c \in SizeBoxes : Resize(c)

SpecSize == InitSize /\ [][NextSize]_vars

\* SpecLife: the imperative methods over the component's life. exportImage,
\* clear and undo are called before the mount effect has run, while the
\* canvas exists, and after the cleanup of the mount effect.
InitLife == InitWith("rectangle", <<48, 36>>)

NextLife ==
    \/ Mount
    \/ Unmount
    \/ Drawing
    \/ (pointerHeld /\ Len(historyRef) < MaxHistory /\ PointerUp)
    \/ (~pointerHeld /\ \E t \in Tools : SetTool(t))
    \/ (Len(historyRef) < MaxHistory /\ Clear)
    \/ Undo
    \/ ExportImage

SpecLife == InitLife /\ [][NextLife]_vars

\* SpecDecode: background images that load and one that does not decode,
\* around the drawing of shapes.
InitDecode == InitWith("rectangle", <<48, 36>>)

NextDecode ==
    \/ Mount
    \/ Drawing
    \/ (pointerHeld /\ Len(historyRef) < MaxHistory /\ PointerUp)
    \/ \E i \in Images \cup BadImages \cup {Null} : SetBackgroundImage(i)
    \/ \E u \in Images : ImageLoaded(u)
    \/ \E u \in BadImages : ImageFailed(u)

SpecDecode == InitDecode /\ [][NextDecode]_vars

\* SpecBrush: the brush size under the '[' and ']' shortcuts and the slider,
\* from its initial value.
InitBrush == InitWith("brush", <<48, 36>>)

NextBrush ==
    \/ Mount
    \/ KeyBracketLeft
    \/ KeyBracketRight
    \/ \E v \in MinBrushSize..MaxBrushSize : Slider(v)

SpecBrush == InitBrush /\ [][NextBrush]_vars

\* SpecResize: a rectangle gesture with resizes and aspect-ratio changes at
\* any time, also with a container that has no width or no height. A gesture
\* starts only on a canvas that has an area to press on; moves and the release
\* of a started gesture arrive whatever the canvas has become.
InitResize == \E c \in ContainersResize : InitWith("rectangle", c)

NextResize ==
    \/ Mount
    \/ (/\ nextId <= MaxObjectsResize /\ ~pointerHeld
        /\ canvas.width[1] > 0 /\ canvas.height[1] > 0
        /\ \E p \in ShapePoints : PointerDown(p))
    \/ (pointerHeld /\ \E p \in ShapePoints : PointerMove(p))
    \/ (pointerHeld /\ PointerUp)
    \/ \E c \in ContainersResize : Resize(c)
    \/ \E a \in AspectRatios : SetAspectRatio(a)

SpecResize == InitResize /\ [][NextResize]_vars

\* SpecLeave: whole gestures with every tool, the tool changed between
\* gestures; the pointer leaves the canvas at any time, also during a gesture.
InitLeave == InitWith("brush", <<48, 36>>)

NextLeave ==
    \/ Mount
    \/ Drawing
    \/ (pointerHeld /\ \E p \in Points : PointerMove(p))
    \/ (pointerHeld /\ Len(historyRef) < MaxHistory /\ PointerUp)
    \/ (~pointerHeld /\ \E t \in Tools : SetTool(t))
    \/ PointerLeave

SpecLeave == InitLeave /\ [][NextLeave]_vars

\* SpecView: everything that calls updateCanvasView. Whole gestures of one
\* shape tool with a background image; aspect-ratio changes, resizes, clear and
\* undo between gestures, and the image loads and the loadFromJSON loads
\* completing in any order.
InitView == InitWith("rectangle", <<48, 36>>)

NextView ==
    \/ Mount
    \/ (nextId <= MaxObjectsView /\ ~pointerHeld /\ \E p \in Points : PointerDown(p))
    \/ (pointerHeld /\ Len(historyRef) < MaxHistory /\ PointerUp)
    \/ (~pointerHeld /\ Len(historyRef) < MaxHistory /\ Clear)
    \/ (~pointerHeld /\ \E i \in Images \cup {Null} : SetBackgroundImage(i))
    \/ (~pointerHeld /\ \E a \in AspectRatios : SetAspectRatio(a))
    \/ (~pointerHeld /\ \E c \in Containers : Resize(c))
    \/ \E u \in Images : ImageLoaded(u)
    \/ (~pointerHeld /\ Undo)
    \/ \E l \in jsonLoads : JsonLoaded(l)

SpecView == InitView /\ [][NextView]_vars

-----------------------------------------------------------------------------
\* Properties

\* the composition of the current BackgroundSpec alone, at the current size
BackgroundOnly ==
    LET size == ComputeSize(props.aspectRatio[1], props.aspectRatio[2],
                            container[1], container[2])
    IN  [objects |-> <<>>,
         backgroundColor |-> props.backgroundColor,
         backgroundImage |-> props.backgroundImage,
         width |-> size.width, height |-> size.height]

\* C1: the history never holds more than MAX_UNDO_STEPS entries, and every
\* saveState (mount, a completed gesture, clear) leaves the previous entries
\* in order followed by the new snapshot, less the oldest one when that makes
\* more than MAX_UNDO_STEPS: after N > 20 pushes the 20 most recent remain.
C1_HistoryCapacity ==
    /\ [](Len(historyRef) <= MAX_UNDO_STEPS)
    /\ [][lastOp' \in {"mount", "pointerUp", "clear"} =>
            historyRef' = Suffix(Append(historyRef, ToJSON(canvas')), MAX_UNDO_STEPS)]_vars

\* C1 witness: 20 gestures after the mount snapshot, so 21 or more pushes,
\* and the history is full
C1_Witness ==
    /\ lastOp = "pointerUp"
    /\ nextId - 1 >= MAX_UNDO_STEPS
    /\ Len(historyRef) = MAX_UNDO_STEPS

\* C2: once the canvas is mounted the history is never empty
C2_HistoryNeverEmpty == fabricCanvasRef # Null => Len(historyRef) >= 1

\* C2 witness: an undo has popped the history down to its last entry
C2_Witness == lastOp = "undo" /\ Len(historyRef) = 1

\* C3: the pointerUp that ends a gesture pushes exactly one snapshot, the
\* canvas as the gesture leaves it, whatever the tool
C3_OneSnapshotPerGesture ==
    [][(pointerHeld /\ lastOp \in {"pointerDown", "pointerMove"} /\ lastOp' = "pointerUp")
         => /\ Len(historyRef') = Len(historyRef) + 1
            /\ Last(historyRef') = ToJSON(canvas')]_vars

\* C4: after k >= 1 whole gestures, one undo leaves exactly the objects of the
\* first k-1 gestures on the canvas
C4_UndoRemovesOneGesture ==
    (scenario = "undone" /\ jsonLoads = {} /\ Len(done) >= 1)
        => ObjectIds(canvas) = Front(done)

\* C5: undo right after the first gesture leaves the background-only canvas
C5_UndoFirstStroke ==
    (scenario = "undone" /\ jsonLoads = {} /\ Len(done) = 1)
        => /\ canvas.objects = <<>>
           /\ canvas.backgroundColor = props.backgroundColor

\* C6: undo called with exactly one history entry changes neither the canvas
\* nor the history
C6_UndoIdempotentAtOne ==
    [][(Len(historyRef) = 1 /\ lastOp' \in {"undo", "undoNoop"})
         => (canvas' = canvas /\ historyRef' = historyRef)]_vars

\* C6 witness: undo has been called with one entry and did nothing
C6_Witness == lastOp = "undoNoop" /\ Len(historyRef) = 1 /\ fabricCanvasRef # Null

\* C7: when one or more undo calls that follow whole gestures have completed
\* and no loadFromJSON is pending, the objects on the canvas are those of the
\* top history entry
C7_SurfaceIsTopAfterUndo ==
    (scenario \in {"undone", "undoneMore"} /\ lastOp \in {"undo", "jsonLoaded"}
       /\ jsonLoads = {})
        => ToJSON(canvas).objects = Last(historyRef).objects

C9_ClearThenExport ==
    [][(lastOp = "clear" /\ lastOp' = "exportImage") => exported' = <<BackgroundOnly>>]_vars

\* C10: exportImage changes neither the canvas (content and size), nor the
\* history, nor the drawing state
C10_ExportNoSideEffects ==
    [][lastOp' = "exportImage" =>
         UNCHANGED <<canvas, historyRef, isDrawingRef, startPointRef, currentShapeRef>>]_vars

\* C10 witness: an export in the middle of a shape gesture
C10_Witness ==
    /\ lastOp = "exportImage"
    /\ exported # None
    /\ isDrawingRef
    /\ currentShapeRef # None

\* C11: once every background-image load has completed, the canvas shows the
\* background image requested last (or none when none was requested last)
C11_LatestBackgroundWins ==
    (lifecycle = "mounted" /\ imgLoads = {} /\ jsonLoads = {})
        => canvas.backgroundImage = props.backgroundImage

\* C12: right after a change of the background colour or image the history
\* has exactly one entry
C12_BackgroundChangeResetsHistory ==
    lastOp \in {"setBackgroundColor", "setBackgroundImage"} => Len(historyRef) = 1

\* C13: a pointerUp with no gesture in progress (no pointer held, not drawing)
\* changes neither the history, nor the canvas, nor the drawing state
C13_StrayPointerUpIgnored ==
    [][(lifecycle = "mounted" /\ ~pointerHeld /\ ~isDrawingRef /\ lastOp' = "pointerUp")
         => UNCHANGED <<historyRef, canvas, isDrawingRef, startPointRef,
                        currentShapeRef>>]_vars

\* C14: a resize in the middle of a shape gesture cancels it: the drawing
\* state is idle again and the in-progress shape is off the canvas
C14_ResizeCancelsGesture ==
    [][(isDrawingRef /\ currentShapeRef # None /\ lastOp' = "resize")
         => /\ ~isDrawingRef'
            /\ currentShapeRef' = None
            /\ \A i \in 1..Len(canvas'.objects) :
                   canvas'.objects[i].ref # currentShapeRef[1].ref]_vars

\* C15: a pointerMove to p during a shape gesture adds no object and changes
\* no other object; the one in-progress shape is on the canvas exactly once
\* and is what a fresh shape at the start point becomes when moved to p, so
\* nothing of the earlier moves remains
C15_NoStalePartialShapes ==
    [][\A p \in ShapePoints :
         (/\ pointerHeld /\ isDrawingRef
          /\ currentShapeRef # None /\ startPointRef # None
          /\ PointerMove(p))
         => LET start == startPointRef[1]
                old == CurrentShape
                fresh == NewObject(props.tool, old.id, start, props.brushSize)
            IN  /\ Len(canvas'.objects) = Len(canvas.objects)
                /\ Cardinality({i \in 1..Len(canvas'.objects) :
                                   canvas'.objects[i].ref = old.ref}) = 1
                /\ \A i \in 1..Len(canvas.objects) :
                       canvas.objects[i].ref # old.ref
                         => canvas'.objects[i] = canvas.objects[i]
                /\ CurrentShape' = MoveShape(fresh, props.tool, start, p)]_vars

\* C15 witness: a second shape is being dragged, next to a committed one
C15_Witness ==
    /\ lastOp = "pointerMove"
    /\ pointerHeld /\ isDrawingRef /\ currentShapeRef # None
    /\ Len(canvas.objects) = 2
    /\ CurrentShape.ref = canvas.objects[2].ref
    /\ CurrentShape # NewObject(props.tool, CurrentShape.id, startPointRef[1],
                                props.brushSize)

\* C17: a rectangle dragged from S to p spans [min(Sx,px), max(Sx,px)] x
\* [min(Sy,py), max(Sy,py)], with width |dx| and height |dy|, in every drag
\* direction, and pointerUp commits it as it is
C17_RectangleBox ==
    [][/\ \A p \in ShapePoints :
            (/\ props.tool = "rectangle" /\ pointerHeld /\ isDrawingRef
             /\ currentShapeRef # None /\ startPointRef # None
             /\ PointerMove(p))
            => LET S == startPointRef[1]
                   o == CurrentShape'
                   minX == IF o.originX = "right" THEN o.left[1] - o.width ELSE o.left[1]
                   minY == IF o.originY = "bottom" THEN o.top[1] - o.height ELSE o.top[1]
               IN  /\ o.type = "rect"
                   /\ o.left[2] = 1 /\ o.top[2] = 1
                   /\ o.width = Abs(p[1] - S[1])
                   /\ o.height = Abs(p[2] - S[2])
                   /\ minX = (IF S[1] < p[1] THEN S[1] ELSE p[1])
                   /\ minX + o.width = (IF S[1] < p[1] THEN p[1] ELSE S[1])
                   /\ minY = (IF S[2] < p[2] THEN S[2] ELSE p[2])
                   /\ minY + o.height = (IF S[2] < p[2] THEN p[2] ELSE S[2])
       /\ (props.tool = "rectangle" /\ pointerHeld /\ lastOp' = "pointerUp")
            => canvas'.objects = canvas.objects]_vars

\* C17 witness: a rectangle dragged to the left and upwards has been committed
C17_Witness ==
    /\ lastOp = "pointerUp"
    /\ \E i \in 1..Len(canvas.objects) :
          /\ canvas.objects[i].type = "rect"
          /\ canvas.objects[i].originX = "right"
          /\ canvas.objects[i].originY = "bottom"
          /\ canvas.objects[i].width > 0
          /\ Last(historyRef).objects[i] = ToObject(canvas.objects[i])

\* C18: an ellipse dragged from S to p is centred at the midpoint of S and p
\* with radii |dx|/2 and |dy|/2, in every drag direction, and pointerUp
\* commits it as it is
C18_EllipseGeometry ==
    [][/\ \A p \in ShapePoints :
            (/\ props.tool = "circle" /\ pointerHeld /\ isDrawingRef
             /\ currentShapeRef # None /\ startPointRef # None
             /\ PointerMove(p))
            => LET S == startPointRef[1]
                   o == CurrentShape'
               IN  /\ o.type = "ellipse"
                   /\ o.originX = "center" /\ o.originY = "center"
                   /\ 2 * o.left[1] = (S[1] + p[1]) * o.left[2]
                   /\ 2 * o.top[1] = (S[2] + p[2]) * o.top[2]
                   /\ 2 * o.rx[1] = Abs(p[1] - S[1]) * o.rx[2]
                   /\ 2 * o.ry[1] = Abs(p[2] - S[2]) * o.ry[2]
       /\ (props.tool = "circle" /\ pointerHeld /\ lastOp' = "pointerUp")
            => canvas'.objects = canvas.objects]_vars

\* C18 witness: an ellipse is being dragged to the left of and above its
\* start point
C18_Witness ==
    /\ lastOp = "pointerMove"
    /\ props.tool = "circle" /\ pointerHeld /\ isDrawingRef
    /\ currentShapeRef # None /\ startPointRef # None
    /\ CurrentShape.rx[1] > 0 /\ CurrentShape.ry[1] > 0
    /\ CurrentShape.left[1] < startPointRef[1][1] * CurrentShape.left[2]
    /\ CurrentShape.top[1] < startPointRef[1][2] * CurrentShape.top[2]

\* C19: every arrow's head is max(10, 2.5 * brushSize) long and, once the
\* arrow has been dragged, sits at the end of its line along atan2(dy, dx)
C19_ArrowHeadLength ==
    \A i \in 1..Len(canvas.objects) :
        LET o == canvas.objects[i]
        IN  o.type = "group"
              => /\ 2 * o.head = (IF 5 * o.strokeWidth > 20 THEN 5 * o.strokeWidth ELSE 20)
                 /\ o.left = <<o.x2, 1>> /\ o.top = <<o.y2, 1>>

\* C16: the canvas size is the largest box of the aspect ratio w:h that fits
\* in the container: neither side exceeds the container's, the ratio of the
\* sides is w:h, the height is the container's (and the width smaller) when
\* containerW/containerH exceeds w/h and the width is the container's
\* otherwise
C16_LargestFittingBox ==
    lifecycle = "mounted" =>
        LET w == canvas.width
            h == canvas.height
            aw == props.aspectRatio[1]
            ah == props.aspectRatio[2]
            cw == container[1]
            ch == container[2]
        IN  /\ w[2] > 0 /\ h[2] > 0
            /\ w[1] <= cw * w[2]
            /\ h[1] <= ch * h[2]
            /\ (w[1] = cw * w[2] \/ h[1] = ch * h[2])
            /\ w[1] * h[2] * ah = aw * h[1] * w[2]
            /\ (cw * ah > ch * aw) => (h[1] = ch * h[2] /\ w[1] < cw * w[2])
            /\ ~(cw * ah > ch * aw) => w[1] = cw * w[2]

\* C16 witness: a resize made the container wider than 3:4, the height is
\* clamped and the width is not a whole number
C16_Witness ==
    /\ lastOp = "resize"
    /\ props.aspectRatio = <<3, 4>>
    /\ canvas.height = <<container[2], 1>>
    /\ canvas.width[1] < container[1] * canvas.width[2]
    /\ canvas.width[1] % canvas.width[2] # 0

\* C20: exportImage, clear and undo never throw; while there is no canvas
\* (before the mount effect, after its cleanup) exportImage returns the empty
\* string and clear and undo leave the history and the canvas alone
C20_MethodsNeverThrow ==
    [][lastOp' \in {"exportImage", "clear", "clearNoop", "undo", "undoNoop"}
         => /\ uncaughtError' = uncaughtError
            /\ fabricCanvasRef = Null
                 => /\ historyRef' = historyRef
                    /\ canvas' = canvas
                    /\ lastOp' = "exportImage" => exported' = None]_vars

\* C20 witness: undo was called after the unmount with entries left to pop
C20_Witness ==
    /\ lifecycle = "unmounted"
    /\ lastOp = "undoNoop"
    /\ fabricCanvasRef = Null
    /\ Len(historyRef) >= 2
    /\ ~uncaughtError

\* C21: when the background image fails to decode nothing is thrown, the
\* canvas shows the current background colour and no image, and the objects
\* on the canvas and the history are unchanged
C21_DecodeFailureAbsorbed ==
    [][lastOp' = "imageFailed"
         => /\ uncaughtError' = uncaughtError
            /\ canvas'.backgroundImage \notin Images
            /\ canvas'.backgroundColor = props.backgroundColor
            /\ canvas'.objects = canvas.objects
            /\ historyRef' = historyRef]_vars

\* C22 (as the specification states it): the oldest history entry always is
\* the blank canvas, with no object
C22_OldestIsBlank == historyRef # <<>> => historyRef[1].objects = <<>>

\* C22 (as the code behaves): the oldest history entry is the blank snapshot
\* of the mount until a snapshot is pushed onto a full history; only such a
\* push replaces it, by the entry that was second oldest
C22_OldestBlankUntilEviction ==
    /\ [](lastOp = "mount" => (Len(historyRef) = 1 /\ historyRef[1].objects = <<>>))
    /\ [][(historyRef # <<>> /\ historyRef'[1] # historyRef[1])
            => /\ Len(historyRef) = MAX_UNDO_STEPS
               /\ lastOp' \in {"pointerUp", "clear"}
               /\ historyRef'[1] = historyRef[2]]_vars

\* C22 witness: the history is full and the blank snapshot of the mount has
\* been evicted from it
C22_Witness ==
    /\ lastOp = "pointerUp"
    /\ Len(historyRef) = MAX_UNDO_STEPS
    /\ historyRef[1].objects # <<>>

\* the size updateCanvasView computes from the current aspect ratio and the
\* current container
CurrentSize ==
    ComputeSize(props.aspectRatio[1], props.aspectRatio[2], container[1], container[2])

\* C23: after the mount, an aspect-ratio change, a resize, a clear and a
\* completed undo, the canvas has the size computed from the current aspect
\* ratio and the current container
C23_SizeIsCurrent ==
    (/\ fabricCanvasRef # Null
     /\ \/ lastOp \in {"mount", "setAspectRatio", "resize", "clear", "jsonLoaded"}
        \/ (lastOp = "undo" /\ jsonLoads = {}))
      => (canvas.width = CurrentSize.width /\ canvas.height = CurrentSize.height)

\* C24: a pointerMove never adds a snapshot to the history, whatever the tool
\* and whether or not a gesture is in progress
C24_MoveNeverPushes ==
    [][lastOp' = "pointerMove" => historyRef' = historyRef]_vars

\* C24 witness: handleMouseMove has just resized the shape being drawn
C24_Witness ==
    /\ lastOp = "pointerMove"
    /\ pointerHeld /\ isDrawingRef /\ currentShapeRef # None
    /\ HandlersRegistered(props.tool)
    /\ Len(historyRef) >= 1

\* C25: a pointerMove with no button held changes neither the canvas nor the
\* history and raises no error, whatever gestures and tool changes came before
C25_StrayPointerMoveIgnored ==
    [][(~pointerHeld /\ lastOp' = "pointerMove")
         => /\ canvas' = canvas
            /\ historyRef' = historyRef
            /\ uncaughtError' = uncaughtError]_vars

\* C26: a pointer-leave during a gesture ends it as a pointerUp does: no
\* gesture is in progress afterwards, no shape is current and the history has
\* grown by one snapshot
C26_LeaveEndsGesture ==
    [][(/\ pointerHeld
        /\ isDrawingRef \/ canvas.isCurrentlyDrawing
        /\ lastOp' = "pointerLeave")
         => /\ ~isDrawingRef'
            /\ ~canvas'.isCurrentlyDrawing
            /\ currentShapeRef' = None
            /\ Len(historyRef') = Len(historyRef) + 1]_vars

\* C27: a shape whose gesture is abandoned, by a switch to the brush while the
\* button is held or by a second pointerDown before the pointerUp, is no
\* longer on the canvas afterwards
C27_AbandonedShapeRemoved ==
    [][(/\ pointerHeld /\ isDrawingRef /\ currentShapeRef # None
        /\ \/ (lastOp' = "setTool" /\ ~HandlersRegistered(props'.tool))
           \/ lastOp' = "pointerDown")
         => \A i \in 1..Len(canvas'.objects) :
               canvas'.objects[i].ref # currentShapeRef[1].ref]_vars

\* C28: when a resize or an aspect-ratio change alters the canvas size, the
\* committed objects are kept and rescaled: positions and sizes along x scale
\* with new width / old width, along y with new height / old height
C28_ContentRescaled ==
    [][(/\ lastOp' \in {"resize", "setAspectRatio"}
        /\ ~pointerHeld
        /\ canvas.objects # <<>>
        /\ canvas.width[1] > 0 /\ canvas'.width[1] > 0
        /\ canvas'.width[1] * canvas.width[2] # canvas.width[1] * canvas'.width[2])
         => /\ Len(canvas'.objects) = Len(canvas.objects)
            /\ \A i \in 1..Len(canvas.objects) :
                 LET o == canvas.objects[i]
                     n == canvas'.objects[i]
                     W == canvas.width
                     Wn == canvas'.width
                     H == canvas.height
                     Hn == canvas'.height
                 IN  /\ n.left[1] * o.left[2] * W[1] * Wn[2]
                          = o.left[1] * n.left[2] * Wn[1] * W[2]
                     /\ n.width * W[1] * Wn[2] = o.width * Wn[1] * W[2]
                     /\ n.top[1] * o.top[2] * H[1] * Hn[2]
                          = o.top[1] * n.top[2] * Hn[1] * H[2]
                     /\ n.height * H[1] * Hn[2] = o.height * Hn[1] * H[2]]_vars

\* C30: while the canvas has size zero, a pointerDown, pointerMove or
\* pointerUp adds no object to it and pushes nothing to the history
C30_NoDrawingAtZeroSize ==
    [][(/\ canvas.width[1] = 0 \/ canvas.height[1] = 0
        /\ lastOp' \in {"pointerDown", "pointerMove", "pointerUp"})
         => /\ Len(canvas'.objects) = Len(canvas.objects)
            /\ historyRef' = historyRef]_vars

\* C29: resize handling is debounced: two resize events in direct succession
\* do not each recompose the canvas, that is, the canvas is never given the
\* size of the first and then the different size of the second
C29_ResizeDebounced ==
    [][(lastOp = "resize" /\ lastOp' = "resize")
         => LET before == ComputeSize(props.aspectRatio[1], props.aspectRatio[2],
                                      container[1], container[2])
            IN  ~(/\ canvas.width = before.width /\ canvas.height = before.height
                  /\ canvas'.width = CurrentSize'.width
                  /\ canvas'.height = CurrentSize'.height
                  /\ canvas'.width # canvas.width)]_vars

\* C31: the brush size stays an integer in 1..100 under every sequence of
\* '[' and ']' key presses and slider changes; '[' at 1 leaves it at 1 and
\* ']' at 100 leaves it at 100
C31_BrushSizeInRange ==
    /\ [](props.brushSize \in MinBrushSize..MaxBrushSize)
    /\ [][(lastOp' = "keyBracketLeft" /\ props.brushSize = MinBrushSize)
            => props'.brushSize = MinBrushSize]_vars
    /\ [][(lastOp' = "keyBracketRight" /\ props.brushSize = MaxBrushSize)
            => props'.brushSize = MaxBrushSize]_vars

\* C31 witness: '[' has been pressed with the brush size at its minimum
C31_Witness ==
    /\ lastOp = "keyBracketLeft"
    /\ props.brushSize = MinBrushSize

\* C32: whenever no pointer button is held, no gesture is in progress:
\* isDrawingRef is false and neither a current shape nor a start point is kept
C32_DrawingOnlyWhileHeld ==
    ~pointerHeld => (~isDrawingRef /\ currentShapeRef = None /\ startPointRef = None)

\* C33: whenever no gesture is in progress and no load is pending, the objects
\* recorded in the newest history entry are the objects on the canvas
C33_TopSnapshotIsCanvas ==
    (/\ fabricCanvasRef # Null
     /\ ~pointerHeld /\ ~isDrawingRef /\ ~canvas.isCurrentlyDrawing
     /\ imgLoads = {} /\ jsonLoads = {}
     /\ historyRef # <<>>)
      => Last(historyRef).objects = ToJSON(canvas).objects

\* C34: a pointerMove that updates the shape in progress applies the update of
\* the tool that created the shape, never the update of another tool, and so
\* never fails on a shape of the wrong type
C34_MoveUsesCreatingTool ==
    [][(/\ lastOp' = "pointerMove"
        /\ ~canvas.isDrawingMode /\ HandlersRegistered(props.tool)
        /\ isDrawingRef /\ currentShapeRef # None /\ startPointRef # None)
         => /\ currentShapeRef[1].type = TypeOf(props.tool)
            /\ uncaughtError' = uncaughtError]_vars

\* C35: once an undo has completed and every load has finished, the canvas
\* shows the background colour and image of the current props, not those of
\* the restored snapshot, and has the size computed from the current aspect
\* ratio and container
C35_UndoKeepsCurrentView ==
    [][(/\ fabricCanvasRef # Null
        /\ \/ lastOp' \in {"undo", "jsonLoaded"}
           \/ (lastOp \in {"undo", "jsonLoaded"} /\ lastOp' = "imageLoaded")
        /\ jsonLoads' = {} /\ imgLoads' = {})
         => /\ canvas'.backgroundColor = props'.backgroundColor
            /\ canvas'.backgroundImage = props'.backgroundImage
            /\ canvas'.width = CurrentSize'.width
            /\ canvas'.height = CurrentSize'.height]_vars

====
